---- MODULE Spec2Model ----
(***************************************************************************)
(* A model of complexity/generate.py: output-path resolution, the ignore   *)
(* predicate, HTML minification, context aggregation, the template tree    *)
(* walk and the asset copy.                                                *)
(*                                                                         *)
(* Text (paths, file names, documents) is a sequence of one-character      *)
(* strings, so that prefixes, separators and extensions are computed as    *)
(* the code computes them.                                                 *)
(***************************************************************************)
EXTENDS Integers, Sequences, FiniteSets, TLC

VARIABLES
    call,                 \* the arguments of the pure function being called
    ret,                  \* its outcome: NotCalled, Returned(v) or Raised(e)
    templates_kind,       \* what templates_dir is: "absent", "file" or "dir"
    walk,                 \* the files os.walk yields, in listing order
    unexpanded_templates, \* the caller's list of exempted template paths
    expand,               \* the caller's expand flag
    assets,               \* os.listdir(assets_dir), in listing order
    pc,                   \* position in the pipeline
    idx,                  \* index of the next entry of walk / assets
    run,                  \* 1 for the first run of the pipeline, 2 for the second
    out_dirs,             \* directories that exist in the output tree
    out_files,            \* files of the output tree: [path, content]
    first_out,            \* out_files as the first run left it
    written,              \* what generate_html_file wrote: [p, dest, content]
    reported,             \* what generate_html printed: [p, outfile]
    error                 \* the exception that ended the run, or NoError

run_vars == <<templates_kind, walk, unexpanded_templates, expand, assets, pc, idx,
              run, out_dirs, out_files, first_out, written, reported, error>>
vars == <<call, ret, templates_kind, walk, unexpanded_templates, expand, assets, pc,
          idx, run, out_dirs, out_files, first_out, written, reported, error>>

(***************************************************************************)
(* Bounds of the model.                                                    *)
(***************************************************************************)
MaxDepth == 2       \* segments of a path handed to get_output_filename / _ignore
MaxHtmlLen == 6     \* characters of a document handed to minify_html
MaxCtxFiles == 2    \* entries of the context directory
MaxTemplates == 3   \* files under the templates directory
MaxAssets == 2      \* entries of the assets directory

(***************************************************************************)
(* Names used as inputs.                                                   *)
(***************************************************************************)
base == <<"b", "a", "s", "e">>
index_html == <<"i", "n", "d", "e", "x", ".", "h", "t", "m", "l">>
page_html == <<"p", "a", "g", "e", ".", "h", "t", "m", "l">>
art == <<"a", "r", "t">>
basement_html == <<"b", "a", "s", "e", "m", "e", "n", "t", ".", "h", "t", "m", "l">>
base_html == <<"b", "a", "s", "e", ".", "h", "t", "m", "l">>
abase_html == <<"a", "b", "a", "s", "e", ".", "h", "t", "m", "l">>
dot_hidden == <<".", "h", "i", "d", "d", "e", "n">>
a_b_c == <<"a", ".", "b", ".", "c">>
page == <<"p", "a", "g", "e">>
dotdot == <<".", ".">>
dot == <<".">>
www == <<"w", "w", "w">>
www_slash == <<"w", "w", "w", "/">>
out_www == <<"o", "u", "t", "/", "w", "w", "w">>

(***************************************************************************)
(* Python values.                                                          *)
(***************************************************************************)
\* Python's False, returned by get_output_filename for a base template: a
\* value that is no text (every element of a text is one character).
False == <<"False">>
\* Python's truth test of a return value that is False or a str.
Truthy(x) == x # False /\ x # <<>>
\* ret before the function is called, after it returned v, and
\* after it raised exception e.
NotCalled == [status |-> "NotCalled", value |-> <<>>]
Returned(v) == [status |-> "returned", value |-> v]
Raised(e) == [status |-> "raised", value |-> e]

(***************************************************************************)
(* str and os.path (posixpath) helpers, as the library computes them.      *)
(***************************************************************************)
sep == "/"

\* str.startswith
startswith(s, prefix) ==
    Len(prefix) <= Len(s) /\ SubSeq(s, 1, Len(prefix)) = prefix

\* str.find + 1: the index of the first c in s, 0 when there is none
find(s, c) ==
    IF \E k \in 1..Len(s) : s[k] = c
    THEN CHOOSE k \in 1..Len(s) : s[k] = c /\ \A m \in 1..(k - 1) : s[m] # c
    ELSE 0

\* str.rfind + 1: the index of the last c in s, 0 when there is none
rfind(s, c) ==
    IF \E k \in 1..Len(s) : s[k] = c
    THEN CHOOSE k \in 1..Len(s) : s[k] = c /\ \A m \in (k + 1)..Len(s) : s[m] # c
    ELSE 0

\* str.split(c)
RECURSIVE split(_, _)
split(s, c) ==
    IF find(s, c) = 0 THEN <<s>>
    ELSE <<SubSeq(s, 1, find(s, c) - 1)>> \o split(SubSeq(s, find(s, c) + 1, Len(s)), c)

\* '/'.join(comps)
RECURSIVE slash_join(_)
slash_join(comps) ==
    IF comps = <<>> THEN <<>>
    ELSE IF Len(comps) = 1 THEN comps[1]
    ELSE comps[1] \o <<sep>> \o slash_join(Tail(comps))

\* str.rstrip('/')
RECURSIVE rstrip_sep(_)
rstrip_sep(s) ==
    IF s # <<>> /\ s[Len(s)] = sep THEN rstrip_sep(SubSeq(s, 1, Len(s) - 1)) ELSE s

\* the loop of posixpath.normpath over the components of the path
RECURSIVE normpath_comps(_, _, _)
normpath_comps(comps, new_comps, initial_slashes) ==
    IF comps = <<>> THEN new_comps
    ELSE LET comp == Head(comps) IN
         IF comp = <<>> \/ comp = dot
         THEN normpath_comps(Tail(comps), new_comps, initial_slashes)
         ELSE IF \/ comp # dotdot
                 \/ (initial_slashes = 0 /\ new_comps = <<>>)
                 \/ (new_comps # <<>> /\ new_comps[Len(new_comps)] = dotdot)
         THEN normpath_comps(Tail(comps), Append(new_comps, comp), initial_slashes)
         ELSE IF new_comps # <<>>
         THEN normpath_comps(Tail(comps), SubSeq(new_comps, 1, Len(new_comps) - 1),
                             initial_slashes)
         ELSE normpath_comps(Tail(comps), new_comps, initial_slashes)

\* os.path.normpath
normpath(path) ==
    IF path = <<>> THEN dot
    ELSE LET initial_slashes ==
                 IF ~startswith(path, <<sep>>) THEN 0
                 ELSE IF startswith(path, <<sep, sep>>) /\ ~startswith(path, <<sep, sep, sep>>)
                 THEN 2 ELSE 1
             joined == slash_join(normpath_comps(split(path, sep), <<>>, initial_slashes))
             res == [k \in 1..initial_slashes |-> sep] \o joined
         IN IF res = <<>> THEN dot ELSE res

\* os.path.basename
basename(p) == SubSeq(p, rfind(p, sep) + 1, Len(p))

\* os.path.dirname
dirname(p) ==
    LET head == SubSeq(p, 1, rfind(p, sep))
    IN IF head # <<>> /\ \E k \in 1..Len(head) : head[k] # sep
       THEN rstrip_sep(head) ELSE head

\* one step of os.path.join: a joined with the next component b
join2(a, b) ==
    IF startswith(b, <<sep>>) THEN b
    ELSE IF a = <<>> \/ a[Len(a)] = sep THEN a \o b
    ELSE a \o <<sep>> \o b

\* os.path.join(a, *parts)
RECURSIVE join(_, _)
join(a, parts) ==
    IF parts = <<>> THEN a ELSE join(join2(a, Head(parts)), Tail(parts))

\* os.path.splitext: <<root, ext>>
splitext(p) ==
    LET sepIndex == rfind(p, sep)
        dotIndex == rfind(p, ".")
    IN IF dotIndex > sepIndex
          /\ \E k \in (sepIndex + 1)..(dotIndex - 1) : p[k] # "."
       THEN <<SubSeq(p, 1, dotIndex - 1), SubSeq(p, dotIndex, Len(p))>>
       ELSE <<p, <<>>>>

(***************************************************************************)
(* get_output_filename                                                     *)
(***************************************************************************)
\* get_output_filename with the flat-placement test made before the base test
get_output_filename_nobase(template_filepath, output_dir, force_unexpanded, expand_) ==
    LET norm == normpath(template_filepath)
    IN IF force_unexpanded \/ basename(norm) = index_html \/ ~expand_
       THEN join(output_dir, <<norm>>)
       ELSE IF startswith(basename(norm), base) THEN False
       ELSE join(output_dir, <<dirname(norm), split(basename(norm), ".")[1], index_html>>)

\* get_output_filename with the stem cut at the last "." of the base name
get_output_filename_laststem(template_filepath, output_dir, force_unexpanded, expand_) ==
    LET norm == normpath(template_filepath)
    IN IF startswith(basename(norm), base) THEN False
       ELSE IF force_unexpanded \/ basename(norm) = index_html \/ ~expand_
       THEN join(output_dir, <<norm>>)
       ELSE join(output_dir, <<dirname(norm), splitext(basename(norm))[1], index_html>>)

\* get_output_filename: False for a base template, else the output path
get_output_filename(template_filepath, output_dir, force_unexpanded, expand_) ==
    LET norm == normpath(template_filepath)
        basename_ == basename(norm)
        dirname_ == dirname(norm)
    IN IF startswith(basename_, base) THEN False
       ELSE IF force_unexpanded \/ basename_ = index_html \/ ~expand_
       THEN join(output_dir, <<norm>>)
       ELSE LET stem == split(basename_, ".")[1]
            IN join(output_dir, <<dirname_, stem, index_html>>)

(***************************************************************************)
(* Inputs of get_output_filename.                                          *)
(***************************************************************************)
\* path segments: base-prefixed names, ordinary pages, a directory, names with
\* no, one, several and a leading dot, and the segments normpath removes
SegNames == {base, base_html, basement_html, abase_html, index_html, page_html,
             art, page, dot_hidden, a_b_c, dot, dotdot, <<>>}

\* the paths of 1..n segments
RECURSIVE PathsOfDepth(_)
PathsOfDepth(n) ==
    IF n = 1 THEN SegNames
    ELSE {d \o <<sep>> \o s : d \in PathsOfDepth(n - 1), s \in SegNames}

InputPaths == UNION {PathsOfDepth(n) : n \in 1..MaxDepth}

OutputDirs == {www, www_slash, out_www}

\* The pipeline is idle in the specifications of the pure functions.
IdleRun ==
    /\ templates_kind = "absent" /\ walk = <<>> /\ unexpanded_templates = {}
    /\ expand = TRUE /\ assets = <<>> /\ pc = "idle" /\ idx = 0 /\ run = 0
    /\ out_dirs = {} /\ out_files = {} /\ first_out = {}
    /\ written = {} /\ reported = {} /\ error = "NoError"

InitResolve ==
    /\ call \in [fn : {"get_output_filename"}, template_filepath : InputPaths,
                 output_dir : OutputDirs, force_unexpanded : BOOLEAN, expand : BOOLEAN]
    /\ ret = NotCalled
    /\ IdleRun

Resolve ==
    /\ call.fn = "get_output_filename"
    /\ ret = NotCalled
    /\ ret' = Returned(get_output_filename(call.template_filepath, call.output_dir,
                                           call.force_unexpanded, call.expand))
    /\ UNCHANGED <<call, run_vars>>

NextResolve == Resolve

SpecResolve == InitResolve /\ [][NextResolve]_vars

\* the non-empty components of a path
Segs(p) == SelectSeq(split(p, sep), LAMBDA c : c # <<>>)

\* a TemplatePath: relative, normalized, inside the template root
IsTemplatePath(p) ==
    /\ normpath(p) = p
    /\ p # dot
    /\ ~startswith(p, <<sep>>)
    /\ Head(Segs(p)) # dotdot

\* the final segment of a path after normalization
FinalSegment(p) == LET s == Segs(normpath(p)) IN IF s = <<>> THEN <<>> ELSE s[Len(s)]

\* the part of a name before its first "."
StemOf(name) == IF find(name, ".") = 0 THEN name ELSE SubSeq(name, 1, find(name, ".") - 1)

Resolved == call.fn = "get_output_filename" /\ ret.status = "returned"

\* C1: a template whose base name (the final segment after normalization)
\* starts with `base` resolves to the Suppressed marker, whatever outputRoot,
\* forceUnexpanded and expand are.
C1_BaseSuppressed ==
    (Resolved /\ startswith(FinalSegment(call.template_filepath), base))
        => ret.value = False

C1_Witness ==
    /\ Resolved
    /\ call.template_filepath = art \o <<sep>> \o basement_html
    /\ call.force_unexpanded /\ ~call.expand
    /\ ret.value = False

\* C2: a template path whose base name does not start with `base` resolves to
\* outputRoot/p when forceUnexpanded, or the base name is index.html, or expand
\* is false, and to outputRoot/dirName/stem/index.html otherwise.
C2_FlatOrExpanded ==
    (Resolved /\ IsTemplatePath(call.template_filepath)
              /\ ~startswith(FinalSegment(call.template_filepath), base))
        => LET p == call.template_filepath
               segs == Segs(p)
               name == segs[Len(segs)]
               dirs == SubSeq(segs, 1, Len(segs) - 1)
               stem == StemOf(name)
           IN IF call.force_unexpanded \/ name = index_html \/ ~call.expand
              THEN ret.value = slash_join(Segs(call.output_dir) \o segs)
              ELSE ret.value = slash_join(Segs(call.output_dir) \o dirs
                                    \o (IF stem = <<>> THEN <<>> ELSE <<stem>>)
                                    \o <<index_html>>)

C2_Witness ==
    /\ Resolved
    /\ call.template_filepath = art \o <<sep>> \o a_b_c
    /\ ~call.force_unexpanded /\ call.expand
    /\ ret.value = out_www \o <<sep>> \o art \o <<sep, "a", sep>> \o index_html
    /\ call.output_dir = out_www

(***************************************************************************)
(* minify_html                                                             *)
(***************************************************************************)
\* the characters the regular expression's \s matches, among those modelled
IsSpace(c) == c \in {" ", "\t", "\n"}

\* the index of the first character at or after k that \s does not match
RECURSIVE skip_space(_, _)
skip_space(html, k) ==
    IF k <= Len(html) /\ IsSpace(html[k]) THEN skip_space(html, k + 1) ELSE k

\* re.sub(r"\s+<", '<', html) scanning from index k
RECURSIVE re_sub_anyspace(_, _)
re_sub_anyspace(html, k) ==
    IF k > Len(html) THEN <<>>
    ELSE LET e == skip_space(html, k)
         IN IF e > k /\ e <= Len(html) /\ html[e] = "<"
            THEN <<"<">> \o re_sub_anyspace(html, e + 1)
            ELSE <<html[k]>> \o re_sub_anyspace(html, k + 1)

\* re.sub(r">\s+<", '><', html) scanning from index k: the leftmost match is
\* replaced and the scan goes on after it
RECURSIVE re_sub(_, _)
re_sub(html, k) ==
    IF k > Len(html) THEN <<>>
    ELSE LET e == skip_space(html, k + 1)
         IN IF html[k] = ">" /\ e > k + 1 /\ e <= Len(html) /\ html[e] = "<"
            THEN <<">", "<">> \o re_sub(html, e + 1)
            ELSE <<html[k]>> \o re_sub(html, k + 1)

\* minify_html with a pattern that does not ask for the closing ">"
minify_html_anyspace(html) == re_sub_anyspace(html, 1)

minify_html(html) == re_sub(html, 1)

\* the characters of the documents handed to minify_html
HtmlChars == {">", "<", " ", "\n", "a"}

Documents == UNION {[1..n -> HtmlChars] : n \in 0..MaxHtmlLen}

InitMinify ==
    /\ call \in [fn : {"minify_html"}, html : Documents]
    /\ ret = NotCalled
    /\ IdleRun

Minify ==
    /\ call.fn = "minify_html"
    /\ ret = NotCalled
    /\ ret' = Returned(minify_html(call.html))
    /\ UNCHANGED <<call, run_vars>>

NextMinify == Minify

SpecMinify == InitMinify /\ [][NextMinify]_vars

\* position k of s lies in a run of whitespace directly between a ">" and
\* the next "<"
BetweenTags(s, k) ==
    /\ IsSpace(s[k])
    /\ \E a \in 1..(k - 1), b \in (k + 1)..Len(s) :
          /\ s[a] = ">" /\ s[b] = "<"
          /\ \A m \in (a + 1)..(b - 1) : IsSpace(s[m])

\* s from position k on, without the positions between tags
RECURSIVE WithoutBetweenTags(_, _)
WithoutBetweenTags(s, k) ==
    IF k > Len(s) THEN <<>>
    ELSE (IF BetweenTags(s, k) THEN <<>> ELSE <<s[k]>>) \o WithoutBetweenTags(s, k + 1)

Minified == call.fn = "minify_html" /\ ret.status = "returned"

\* C6: minify_html removes exactly the whitespace that lies in a run directly
\* between a ">" and the next "<"; every other character, whitespace inside or
\* next to text included, is kept in order.
C6_MinifyInterTagOnly ==
    Minified => ret.value = WithoutBetweenTags(call.html, 1)

C6_Witness ==
    /\ Minified
    /\ call.html = <<">", "\n", "<", " ", "a">>
    /\ ret.value = <<">", "<", " ", "a">>

(***************************************************************************)
(* _ignore                                                                 *)
(***************************************************************************)
complexity_yml == <<"c", "o", "m", "p", "l", "e", "x", "i", "t", "y", ".", "y", "m", "l">>
dot_j2 == <<".", "j", "2">>
dot_yml == <<".", "y", "m", "l">>
dot_yaml == <<".", "y", "a", "m", "l">>
dot_json == <<".", "j", "s", "o", "n">>
macro_j2 == <<"m", "a", "c", "r", "o", ".", "j", "2">>
data_yml == <<"d", "a", "t", "a", ".", "y", "m", "l">>
site_yaml == <<"s", "i", "t", "e", ".", "y", "a", "m", "l">>
names_json == <<"n", "a", "m", "e", "s", ".", "j", "s", "o", "n">>
x_yml_bak == <<"x", ".", "y", "m", "l", ".", "b", "a", "k">>
v1_yml == <<"v", "1", ".", "y", "m", "l">>
README == <<"R", "E", "A", "D", "M", "E">>
templates == <<"t", "e", "m", "p", "l", "a", "t", "e", "s">>

\* _ignore with .yaml taken for a reserved extension too
ignore_yaml(path, is_binary) ==
    LET fn == basename(path)
        ext == splitext(path)[2]
    IN IF is_binary THEN TRUE
       ELSE IF fn = complexity_yml THEN TRUE
       ELSE IF ext \in {dot_j2, dot_yml, dot_yaml} THEN TRUE
       ELSE FALSE

\* _ignore(path); is_binary is binaryornot's verdict on the file's content
ignore(path, is_binary) ==
    LET fn == basename(path)
        ext == splitext(path)[2]
    IN IF is_binary THEN TRUE
       ELSE IF fn = complexity_yml THEN TRUE
       ELSE IF ext \in {dot_j2, dot_yml} THEN TRUE
       ELSE FALSE

\* file names: the reserved name, the reserved extensions, extensions close
\* to them, a reserved extension that is the whole name or not the last one
IgnoreNames == {complexity_yml, macro_j2, data_yml, site_yaml, names_json, page_html,
                index_html, dot_yml, dot_j2, x_yml_bak, README, a_b_c}

\* directory names, one of them with a reserved extension
IgnoreDirs == {art, v1_yml, dot_j2}

\* the file paths with n segments under the templates directory
RECURSIVE IgnorePathsOfDepth(_)
IgnorePathsOfDepth(n) ==
    IF n = 1 THEN {<<>>}
    ELSE {d \o s \o <<sep>> : d \in IgnorePathsOfDepth(n - 1), s \in IgnoreDirs}

IgnorePaths ==
    {join(templates, <<d \o fn>>) :
        d \in UNION {IgnorePathsOfDepth(n) : n \in 1..MaxDepth}, fn \in IgnoreNames}

InitIgnore ==
    /\ call \in [fn : {"_ignore"}, path : IgnorePaths, is_binary : BOOLEAN]
    /\ ret = NotCalled
    /\ IdleRun

Ignore ==
    /\ call.fn = "_ignore"
    /\ ret = NotCalled
    /\ ret' = Returned(ignore(call.path, call.is_binary))
    /\ UNCHANGED <<call, run_vars>>

NextIgnore == Ignore

SpecIgnore == InitIgnore /\ [][NextIgnore]_vars

\* name has extension e: it ends with e, e holds its last ".", and a
\* character other than "." comes before e
HasExtension(name, e) ==
    /\ Len(name) > Len(e)
    /\ SubSeq(name, Len(name) - Len(e) + 1, Len(name)) = e
    /\ \E k \in 1..(Len(name) - Len(e)) : name[k] # "."

Ignored == call.fn = "_ignore" /\ ret.status = "returned"

\* C4: _ignore returns true exactly when the content is binary, or the base
\* name is complexity.yml, or the extension is .j2 or .yml; nothing but the
\* file's content and name decides.
C4_IgnoreIffDisqualified ==
    Ignored =>
        LET segs == Segs(call.path)
            name == segs[Len(segs)]
        IN ret.value <=> \/ call.is_binary
                         \/ name = complexity_yml
                         \/ HasExtension(name, dot_j2)
                         \/ HasExtension(name, dot_yml)

C4_Witness ==
    /\ Ignored
    /\ call.path = templates \o <<sep>> \o v1_yml \o <<sep>> \o site_yaml
    /\ ~call.is_binary
    /\ ret.value = FALSE

(***************************************************************************)
(* generate_context                                                        *)
(***************************************************************************)
numbers_yml == <<"n", "u", "m", "b", "e", "r", "s", ".", "y", "m", "l">>
notes_txt == <<"n", "o", "t", "e", "s", ".", "t", "x", "t">>

\* Python's None: what json.load gives for `null` and safe_load for an empty
\* document, and the initial value of obj
None == "None"
\* the content of a file the parser rejects
Malformed == "malformed"
\* what the parsers make of the files' contents
ParsedValues == {"[1, 2, 3, 4]", None, Malformed}

\* the mapping with context[name] = obj set; a mapping is the set of its
\* [key, value] items
setitem(context, name, obj) ==
    {kv \in context : kv.key # name} \cup {[key |-> name, value |-> obj]}

\* the loop of generate_context over the directory listing; an entry is
\* [fn, parsed]: its file name and what the parser makes of its content
RECURSIVE context_loop(_, _)
context_loop(all_files, context) ==
    IF all_files = <<>> THEN Returned(context)
    ELSE LET fn == Head(all_files).fn
             name == splitext(fn)[1]
             ext == splitext(fn)[2]
             parsed == Head(all_files).parsed
         IN IF ext = dot_json /\ parsed = Malformed THEN Raised("JSONDecodeError")
            ELSE IF ext \in {dot_yml, dot_yaml} /\ parsed = Malformed
            THEN Raised("YAMLError")
            ELSE LET obj == IF ext = dot_json THEN parsed
                            ELSE IF ext \in {dot_yml, dot_yaml} THEN parsed
                            ELSE None
                 IN context_loop(Tail(all_files),
                                 IF obj # None THEN setitem(context, name, obj)
                                 ELSE context)

\* generate_context(context_dir), all_files being os.listdir(context_dir)
generate_context(all_files) == context_loop(all_files, {})

\* the sequences of at most n distinct elements of S
SeqsOfDistinct(S, n) ==
    UNION {{s \in [1..k -> S] : \A a, b \in 1..k : a # b => s[a] # s[b]} : k \in 0..n}

ContextNames == {names_json, numbers_yml, site_yaml, notes_txt}

\* the listings of a context directory: no two entries share a file name
ContextListings ==
    {s \in SeqsOfDistinct([fn : ContextNames, parsed : ParsedValues], MaxCtxFiles) :
        \A a, b \in 1..Len(s) : a # b => s[a].fn # s[b].fn}

InitContext ==
    /\ call \in [fn : {"generate_context"}, all_files : ContextListings]
    /\ ret = NotCalled
    /\ IdleRun

Build ==
    /\ call.fn = "generate_context"
    /\ ret = NotCalled
    /\ ret' = generate_context(call.all_files)
    /\ UNCHANGED <<call, run_vars>>

NextContext == Build

SpecContext == InitContext /\ [][NextContext]_vars

\* the entries of the listing with a structured-data extension
Recognised(all_files) ==
    {all_files[k] : k \in {m \in 1..Len(all_files) :
        \E e \in {dot_json, dot_yml, dot_yaml} : HasExtension(all_files[m].fn, e)}}

\* C8: the mapping generate_context returns has exactly the filename stems of
\* the .json, .yml and .yaml entries as keys, each mapped to the parsed content
\* of its file whatever that value is.
C8_KeysAreRecognisedStems ==
    (call.fn = "generate_context" /\ ret.status = "returned") =>
        /\ {kv.key : kv \in ret.value}
              = {StemOf(f.fn) : f \in Recognised(call.all_files)}
        /\ \A f \in Recognised(call.all_files) :
              [key |-> StemOf(f.fn), value |-> f.parsed] \in ret.value

(***************************************************************************)
(* The file system the pipeline reads: templates, rendering, assets.       *)
(***************************************************************************)
page_index_html == <<"p", "a", "g", "e", "/", "i", "n", "d", "e", "x", ".", "h", "t", "m", "l">>
art_base_html == <<"a", "r", "t", "/", "b", "a", "s", "e", ".", "h", "t", "m", "l">>
bases_intro_html == <<"b", "a", "s", "e", "s", "/", "i", "n", "t", "r", "o", ".", "h", "t", "m", "l">>
broken_html == <<"b", "r", "o", "k", "e", "n", ".", "h", "t", "m", "l">>
logo_png == <<"l", "o", "g", "o", ".", "p", "n", "g">>
css == <<"c", "s", "s">>
scss == <<"s", "c", "s", "s">>
less == <<"l", "e", "s", "s">>
robots_txt == <<"r", "o", "b", "o", "t", "s", ".", "t", "x", "t">>
site_css == <<"s", "i", "t", "e", ".", "c", "s", "s">>
main_scss == <<"m", "a", "i", "n", ".", "s", "c", "s", "s">>
doc_index == <<"<", "p", ">", " ", "<", "b", ">", "a", " ", "b", "<", "/", "b", ">", "\n", "<", "/", "p", ">">>
doc_page == <<"<", "h", "1", ">", "a", "<", "/", "h", "1", ">", " ", "<", "p", ">">>
doc_page_index == <<"<", "p", ">", "b", "<", "/", "p", ">">>
doc_base == <<"<", "h", "t", "m", "l", ">">>
doc_intro == <<"<", "i", ">", " ", "<", "/", "i", ">">>
doc_robots == <<"a", "\n">>
doc_css == <<"a", " ", "b">>
doc_scss == <<"b">>
doc_asset_index == <<"<", "a", ">">>

\* the arguments of the run that the model fixes
templates_dir == templates
output_dir == www

\* the files a templates directory may hold, as paths relative to it (what
\* os.path.relpath gives for the files os.walk finds)
TemplateUniverse == {index_html, page_html, page_index_html, art_base_html,
                     bases_intro_html, macro_j2, logo_png, broken_html}

\* binaryornot's verdict on the content of the template at path
is_binary(path) == basename(path) = logo_png

\* whether env.get_template(...).render(**context) gives a document for the
\* template, rather than raising
renders(template_filepath) == template_filepath # broken_html

\* the document tmpl.render(**context) returns for the template
render(template_filepath) ==
    CASE template_filepath = index_html -> doc_index
      [] template_filepath = page_html -> doc_page
      [] template_filepath = page_index_html -> doc_page_index
      [] template_filepath = art_base_html -> doc_base
      [] template_filepath = bases_intro_html -> doc_intro
      [] OTHER -> <<>>

\* os.walk is top-down: the files of the root come before those of its
\* subdirectories
IsWalkOrder(s) ==
    \A a, b \in 1..Len(s) : (a < b /\ find(s[b], sep) = 0) => find(s[a], sep) = 0

WalkListings == {s \in SeqsOfDistinct(TemplateUniverse, MaxTemplates) : IsWalkOrder(s)}

\* the entries an assets directory may hold: [name, kind, files, content], a
\* directory with the files under it, a regular file with its content; the
\* asset index.html has the destination of the rendered index.html
AssetUniverse ==
    {[name |-> css, kind |-> "dir", content |-> <<>>,
      files |-> {[path |-> site_css, content |-> doc_css]}],
     [name |-> scss, kind |-> "dir", content |-> <<>>,
      files |-> {[path |-> main_scss, content |-> doc_scss]}],
     [name |-> robots_txt, kind |-> "file", content |-> doc_robots, files |-> {}],
     [name |-> index_html, kind |-> "file", content |-> doc_asset_index, files |-> {}]}

AssetListings == SeqsOfDistinct(AssetUniverse, MaxAssets)

(***************************************************************************)
(* The output tree: fs = [dirs, files, written, error].                    *)
(***************************************************************************)
\* path and the directories above it
Ancestors(path) ==
    {SubSeq(path, 1, k) : k \in {m \in 1..Len(path) : m = Len(path) \/ path[m + 1] = sep}}

\* utils.make_sure_path_exists(path): creates path and the directories above
\* it; creating what exists changes nothing
make_sure_path_exists(fs, path) ==
    IF fs.error # "NoError" THEN fs
    ELSE IF \E f \in fs.files : f.path \in Ancestors(path)
    THEN [fs EXCEPT !.error = "NotADirectoryError"]
    ELSE [fs EXCEPT !.dirs = @ \cup (Ancestors(path) \ {<<>>})]

\* open(path, 'a') and write: the text is added to what the file holds
write_file_append(fs, path, text) ==
    IF fs.error # "NoError" THEN fs
    ELSE IF path \in fs.dirs THEN [fs EXCEPT !.error = "IsADirectoryError"]
    ELSE LET old == {f \in fs.files : f.path = path}
             before == IF old = {} THEN <<>> ELSE (CHOOSE f \in old : TRUE).content
         IN [fs EXCEPT !.files = (@ \ old) \cup {[path |-> path, content |-> before \o text]}]

\* open(path, 'w') and write, and shutil.copyfile: the file at path holds
\* the text, whatever it held before
write_file(fs, path, text) ==
    IF fs.error # "NoError" THEN fs
    ELSE IF path \in fs.dirs THEN [fs EXCEPT !.error = "IsADirectoryError"]
    ELSE [fs EXCEPT !.files = {f \in @ : f.path # path}
                                  \cup {[path |-> path, content |-> text]}]

\* shutil.copytree(item_path, new_dir): fails when new_dir exists
copytree(fs, item, new_dir) ==
    IF fs.error # "NoError" THEN fs
    ELSE IF new_dir \in fs.dirs \/ \E f \in fs.files : f.path = new_dir
    THEN [fs EXCEPT !.error = "FileExistsError"]
    ELSE [fs EXCEPT !.dirs = @ \cup Ancestors(new_dir),
                    !.files = @ \cup {[path |-> join(new_dir, <<f.path>>),
                                       content |-> f.content] : f \in item.files}]

(***************************************************************************)
(* generate_html_file                                                      *)
(***************************************************************************)
generate_html_file(template_filepath, output_dir_, force_unexpanded, minify, expand_, fs) ==
    IF startswith(template_filepath, base) THEN fs
    ELSE IF ~renders(template_filepath) THEN [fs EXCEPT !.error = "TemplateSyntaxError"]
    ELSE LET rendered_html == IF minify THEN minify_html(render(template_filepath))
                              ELSE render(template_filepath)
             output_filename == get_output_filename(template_filepath, output_dir_,
                                                    force_unexpanded, expand_)
         IN IF Truthy(output_filename)
            THEN LET made == make_sure_path_exists(fs, dirname(output_filename))
                     done == write_file(made, output_filename, rendered_html)
                 IN IF done.error # "NoError" THEN done
                    ELSE [done EXCEPT !.written =
                              @ \cup {[p |-> template_filepath, dest |-> output_filename,
                                       content |-> rendered_html]}]
            ELSE fs

(***************************************************************************)
(* The pipeline: generate_html, then copy_assets, run twice.               *)
(***************************************************************************)
Fs == [dirs |-> out_dirs, files |-> out_files, written |-> written, error |-> error]

\* the state after a step that leaves the output tree as fs, at position
\* next unless the step raised
Becomes(fs, next) ==
    /\ out_dirs' = fs.dirs
    /\ out_files' = fs.files
    /\ written' = fs.written
    /\ error' = fs.error
    /\ pc' = IF fs.error # "NoError" THEN "failed" ELSE next

Inputs == <<call, ret, templates_kind, walk, unexpanded_templates, expand, assets>>

Init ==
    /\ call = [fn |-> "pipeline"]
    /\ ret = NotCalled
    /\ templates_kind \in {"absent", "file", "dir"}
    /\ walk \in IF templates_kind = "dir" THEN WalkListings ELSE {<<>>}
    /\ unexpanded_templates \in {{}, {page_html}}
    /\ expand \in BOOLEAN
    /\ assets \in AssetListings
    /\ pc = "start" /\ idx = 0 /\ run = 1
    /\ out_dirs = {} /\ out_files = {} /\ first_out = {}
    /\ written = {} /\ reported = {} /\ error = "NoError"

\* generate_html up to its loop: the existence test, the output directory
GenerateHtmlBegin ==
    /\ pc = "start"
    /\ IF templates_kind = "absent"
       THEN Becomes([Fs EXCEPT !.error = "MissingTemplateDirException"], "walk")
       ELSE Becomes(make_sure_path_exists(Fs, output_dir), "walk")
    /\ idx' = 1
    /\ UNCHANGED <<Inputs, run, first_out, reported>>

\* one iteration of generate_html's loop over the files os.walk yields
WalkFile ==
    /\ pc = "walk" /\ idx <= Len(walk)
    /\ LET template_filepath == walk[idx]
           force_unexpanded == template_filepath \in unexpanded_templates
       IN IF ignore(join(templates_dir, <<template_filepath>>),
                    is_binary(join(templates_dir, <<template_filepath>>)))
          THEN UNCHANGED <<reported, out_dirs, out_files, written, error, pc>>
          ELSE LET outfile == get_output_filename(template_filepath, output_dir,
                                                  force_unexpanded, expand)
               IN /\ reported' = reported \cup {[p |-> template_filepath,
                                                 outfile |-> outfile]}
                  \* positional call: expand lands in the minify parameter and
                  \* the callee's expand keeps its default, True
                  /\ Becomes(generate_html_file(template_filepath, output_dir,
                                                force_unexpanded, expand, TRUE, Fs),
                             "walk")
    /\ idx' = idx + 1
    /\ UNCHANGED <<Inputs, run, first_out>>

\* generate_html returns; copy_assets lists the assets directory
CopyAssetsBegin ==
    /\ pc = "walk" /\ idx > Len(walk)
    /\ pc' = "assets" /\ idx' = 1
    /\ UNCHANGED <<Inputs, run, first_out, out_dirs, out_files, written, reported, error>>

\* one iteration of copy_assets' loop
CopyItem ==
    /\ pc = "assets" /\ idx <= Len(assets)
    /\ LET item == assets[idx]
           copied_dir == IF item.kind = "dir" /\ item.name # scss /\ item.name # less
                         THEN copytree(Fs, item, join(output_dir, <<item.name>>))
                         ELSE Fs
           copied == IF item.kind = "file"
                     THEN write_file(copied_dir, join(output_dir, <<item.name>>),
                                     item.content)
                     ELSE copied_dir
       IN Becomes(copied, "assets")
    /\ idx' = idx + 1
    /\ UNCHANGED <<Inputs, run, first_out, reported>>

\* copy_assets returns: the run is complete
CopyAssetsEnd ==
    /\ pc = "assets" /\ idx > Len(assets)
    /\ pc' = "done"
    /\ UNCHANGED <<Inputs, idx, run, first_out, out_dirs, out_files, written,
                   reported, error>>

\* the pipeline is run again, on the same inputs, into the output directory
\* the first run left
Rerun ==
    /\ pc = "done" /\ run = 1
    /\ run' = 2 /\ pc' = "start" /\ idx' = 0
    /\ first_out' = out_files
    /\ written' = {} /\ reported' = {}
    /\ UNCHANGED <<Inputs, out_dirs, out_files, error>>

Next ==
    \/ GenerateHtmlBegin
    \/ WalkFile
    \/ CopyAssetsBegin
    \/ CopyItem
    \/ CopyAssetsEnd
    \/ Rerun

Spec == Init /\ [][Next]_vars

(***************************************************************************)
(* Properties of the pipeline.                                             *)
(***************************************************************************)
\* what the resolver gives for a template of the walk under the caller's flags
ResolvedFor(p) ==
    get_output_filename(p, output_dir, p \in unexpanded_templates, expand)

\* C3: every file the walker writes is written at the path the resolver gives
\* for the template under the caller's expand value -- outputRoot/p when expand
\* is false -- and that is the destination the walker reported.
C3_WrittenWhereResolved ==
    \A w \in written :
        /\ w.dest = ResolvedFor(w.p)
        /\ ~expand => w.dest = join(output_dir, <<w.p>>)
        /\ [p |-> w.p, outfile |-> w.dest] \in reported

\* C5: when templates_dir is not an existing directory, generate_html fails
\* with MissingTemplateDirException and creates no output directory or file.
C5_MissingTemplateRoot ==
    (templates_kind # "dir" /\ pc # "start") =>
        /\ pc = "failed" /\ error = "MissingTemplateDirException"
        /\ out_dirs = {} /\ out_files = {} /\ written = {}

\* the second run of the pipeline has ended
SecondRunEnded == run = 2 /\ pc \in {"done", "failed"}

\* the assets directory holds a directory that copy_assets copies
HasCopiedDir ==
    \E k \in 1..Len(assets) :
        assets[k].kind = "dir" /\ assets[k].name # scss /\ assets[k].name # less

\* C7, as claimed: a second run on unchanged inputs, into the output directory
\* the first run left, completes without failure and leaves every output file
\* identical to what the first run produced.
C7_SecondRunCompletesIdentical ==
    SecondRunEnded => (pc = "done" /\ out_files = first_out)

\* the destinations of the regular files at the top of the assets directory
AssetFileDests ==
    {join(output_dir, <<assets[k].name>>) :
        k \in {m \in 1..Len(assets) : assets[m].kind = "file"}}

\* C7, amended: a second run completes without failure exactly when the
\* assets directory holds no directory that copy_assets copies, and then it
\* leaves every output file identical to what the first run produced;
\* otherwise the asset copy fails because the destination directory exists,
\* and the output tree holds the same files as after the first run, identical
\* except possibly at the destinations of top-level asset files.
C7_SecondRunIdenticalFiles ==
    SecondRunEnded =>
        /\ pc = "failed" <=> HasCopiedDir
        /\ pc = "failed" => error = "FileExistsError"
        /\ pc = "done" => out_files = first_out
        /\ {f.path : f \in out_files} = {f.path : f \in first_out}
        /\ \A f \in out_files : f.path \notin AssetFileDests => f \in first_out

\* the second run ended in the asset copy, after the walk wrote its pages
\* again: the copied directory and the pages are as the first run left them,
\* and an asset file that had replaced a rendered page was not copied again
C7_Witness ==
    /\ SecondRunEnded
    /\ pc = "failed" /\ error = "FileExistsError"
    /\ [path |-> join(output_dir, <<css, site_css>>), content |-> doc_css] \in out_files
    /\ \E w \in written : w.p = page_html /\ [path |-> w.dest, content |-> w.content] \in first_out
    /\ [path |-> join(output_dir, <<index_html>>), content |-> doc_asset_index] \in first_out
    /\ out_files # first_out

\* C9: generate_html takes no minify flag, so every file it writes holds
\* exactly the text the rendering returned, for either value of expand.
C9_WrittenAsRendered ==
    \A w \in written : w.content = render(w.p)

\* C10: with expand true, once the walk is over, a template the ignore
\* predicate accepts has an output file exactly when the resolver gives it a
\* concrete path.
C10_WrittenIffResolved ==
    (expand /\ run = 1 /\ pc \in {"assets", "done"}) =>
        \A k \in 1..Len(walk) :
            ~ignore(join(templates_dir, <<walk[k]>>),
                    is_binary(join(templates_dir, <<walk[k]>>)))
                => ((\E w \in written : w.p = walk[k]) <=> Truthy(ResolvedFor(walk[k])))

====
